---- MODULE Spec2Model ----
(***************************************************************************)
(* A rebasing stock token (StockToken) and its non-rebasing wrapper        *)
(* (OndoWrappedStock).  The model follows src/unnamed/part_001 (the        *)
(* version with Claim, where Unwrap burns from the fixed contract          *)
(* address) and src/main.go (the version whose Unwrap burns from the       *)
(* holder that is passed in).  Mint, Rebase, Wrap, UpdateExchangeRate,     *)
(* Transfer and Interact are the same code in both files.                  *)
(*                                                                         *)
(* Go maps of *big.Int are functions whose DOMAIN is the set of keys       *)
(* present; a lookup of an absent key yields a nil pointer and a method    *)
(* call on it panics.  A panic is not recovered anywhere in the source:    *)
(* the state at the point of the panic is the last state of the run.       *)
(***************************************************************************)
EXTENDS Integers, Sequences, FiniteSets, TLC

\* ------------------------------------------------------------------ bounds
\* the number of calls in a run
MaxSteps == 5
\* the number of calls in a run that drains the custody balance
MaxDrainSteps == 9

\* --------------------------------------------------------------- constants
basePrecision == 1000000

\* ow.ticker = fmt.Sprintf("ow%s", "TSLA"): the key of the custody balance
\* inside the stock ledger.
owTicker == "owTSLA"

\* contractAddr, the address Unwrap of part_001 burns from.
contractAddr == "0xCONTRACT"

reece == "0xREECE"

\* A second address with the "0xCONTRACT" prefix.
contract2 == "0xCONTRACT2"

Addr == {reece, contractAddr, owTicker}
\* the addresses other than the custody key
NonCustody == {reece, contractAddr}
AddrPrefix == Addr \cup {contract2}

\* strings.HasPrefix(a, "0xCONTRACT")
HasContractPrefix(a) == a \in {contractAddr, contract2}

\* ------------------------------------------------------- big.Int arithmetic
Abs(x) == IF x < 0 THEN -x ELSE x

\* The model's integers: a big.Int is followed while its magnitude stays
\* below Limit.  A quotient of Limit or more is reported as Over, which no
\* sum with numbers below Limit brings back under Limit, and a call whose
\* result would leave the range is not taken.
Limit == 2 ^ 24
Over == 2 ^ 28
Radix == 2 ^ 6

\* <<q, r>> with a * b = q * d + r and 0 <= r < d, for 0 <= a < Limit,
\* b >= 0 and 0 < d < Limit: long multiplication over the digits of b, every
\* intermediate value below 2^31.
RECURSIVE MulDivMod(_, _, _)
MulDivMod(a, b, d) ==
    IF b = 0 THEN <<0, 0>>
    ELSE LET h  == MulDivMod(a, b \div Radix, d)
             t  == b % Radix
             lo == ((h[2] * Radix) % d) + ((a * t) % d)
             q  == h[1] * Radix + ((h[2] * Radix) \div d)
                       + ((a * t) \div d) + (lo \div d)
         IN  IF h[1] >= Limit THEN <<Over, 0>>
             ELSE IF q >= Limit THEN <<Over, 0>>
             ELSE <<q, lo % d>>

\* new(big.Int).Mul(x, y) followed by .Div(_, d): Euclidean division of the
\* exact product (remainder in 0 .. |d| - 1).  d = 0 panics at the caller.
MulDiv(x, y, d) ==
    LET m   == MulDivMod(Abs(x), Abs(y), Abs(d))
        neg == (x < 0) # (y < 0)
        \* floor of the signed product over |d|
        fl  == IF ~neg \/ m[2] = 0
               THEN (IF neg THEN -m[1] ELSE m[1])
               ELSE -(m[1] + 1)
    IN  IF d > 0 THEN fl ELSE -fl

\* ------------------------------------------------------------------ uint64
\* A uint64 is four 16-bit limbs, most significant first.
LimbBase == 2 ^ 16
\* the limbs of n, for 0 <= n < 2^31
U64(n) == <<0, 0, n \div LimbBase, n % LimbBase>>
\* 2^64 - k for 1 <= k <= 65536
U64FromTop(k) == <<LimbBase - 1, LimbBase - 1, LimbBase - 1, LimbBase - k>>

\* int64(v): two's complement reinterpretation.  Defined on the values whose
\* result fits the model's integers (|result| < 2^31).
Int64Of(v) ==
    IF v[1] < LimbBase \div 2
    THEN v[3] * LimbBase + v[4]
    ELSE (v[3] - LimbBase) * LimbBase + v[4]

\* ------------------------------------------------------------------- state
VARIABLES st, ow, last, pre, steps, calls, seen

vars == <<st, ow, last, pre, steps, calls, seen>>

\* dollarsToCents of a string "$whole.hundredths" whose fraction is a binary
\* fraction (.00, .25, .50, .75): strconv.ParseFloat and f * 100 are exact
\* there, and int64() truncates nothing
dollarsToCents(d) == d.whole * 100 + d.hundredths

\* NewStockToken
NewStockToken ==
    [totalSupply |-> 0, balances |-> <<>>, rebaseMultiplier |-> 1,
     sharePrice |-> dollarsToCents([whole |-> 100, hundredths |-> 0])]

\* NewOndoWrappedStock
NewOndoWrappedStock ==
    [totalSupply |-> 0, balances |-> <<>>, exchangeRate |-> basePrecision]

\* m[k] = v, creating the key when absent
Put(m, k, v) == [x \in (DOMAIN m) \cup {k} |-> IF x = k THEN v ELSE m[x]]

Has(m, k) == k \in DOMAIN m

\* the outcome of a call: the world it leaves and whether it returned
Ok(w) == [w |-> w, ok |-> TRUE]
Panic(w) == [w |-> w, ok |-> FALSE]

\* ------------------------------------------------------------- StockToken
\* StockToken.Mint(address, shares)
Mint(w, address, shares) ==
    LET amount == Int64Of(shares) * basePrecision
        old    == IF Has(w.st.balances, address) THEN w.st.balances[address] ELSE 0
    IN  Ok([w EXCEPT !.st.balances = Put(@, address, old + amount),
                     !.st.totalSupply = @ + amount])

\* The stock split that also rescales the wrapper's exchange rate.
RebaseSplit_RescalesRate(w, v) ==
    LET multiplier == Int64Of(v)
    IN  Ok([w EXCEPT !.st.balances =
                         [address \in DOMAIN @ |-> @[address] * multiplier],
                     !.st.rebaseMultiplier = multiplier,
                     !.ow.exchangeRate = @ * multiplier])

\* StockToken.Rebase(action), case uint64: the stock split
RebaseSplit(w, v) ==
    LET multiplier == Int64Of(v)
    IN  Ok([w EXCEPT !.st.balances =
                         [address \in DOMAIN @ |-> @[address] * multiplier],
                     !.st.rebaseMultiplier = multiplier])

\* shareRatio of the dividend case, for a sharePrice other than zero:
\* precisionFactor * cashAmount, divided by sharePrice
ShareRatio(v) == MulDiv(basePrecision, v.cashAmount, v.sharePrice)

\* The dividend case that rounds every account's dividend shares up instead
\* of down.
RebaseDividend_RoundsUp(w, v) ==
    IF v.sharePrice = 0
    THEN Panic(w)
    ELSE LET shareRatio == ShareRatio(v)
         IN  Ok([w EXCEPT !.st.balances =
                     [address \in DOMAIN @ |->
                         @[address]
                             - MulDiv(-@[address], shareRatio, basePrecision)]])

\* StockToken.Rebase(action), case Dividend: the cash dividend
RebaseDividend(w, v) ==
    IF v.sharePrice = 0
    THEN Panic(w)    \* shareRatio.Div: division by zero, before the loop
    ELSE LET shareRatio == ShareRatio(v)
         IN  Ok([w EXCEPT !.st.balances =
                     [address \in DOMAIN @ |->
                         @[address] + MulDiv(@[address], shareRatio, basePrecision)]])

\* `for address := range t.balances`: the orders in which the loop can visit
\* the keys of a map it neither inserts into nor deletes from.  Go leaves the
\* order unspecified and produces every key once.
Orders(keys) ==
    {order \in [1 .. Cardinality(keys) -> keys] :
        \A i, j \in DOMAIN order : order[i] = order[j] => i = j}

\* the state of a Rebase loop: the balance map, and how many times the loop
\* has written each account
LoopStart(balances) ==
    [balances |-> balances, visits |-> [address \in DOMAIN balances |-> 0]]

\* one iteration of the split loop
SplitVisit(r, multiplier, address) ==
    LET balance    == r.balances[address]
        newBalance == balance * multiplier
    IN  [balances |-> [r.balances EXCEPT ![address] = newBalance],
         visits   |-> [r.visits EXCEPT ![address] = @ + 1]]

\* the split loop, visiting the accounts in `order`
RECURSIVE SplitLoop(_, _, _)
SplitLoop(r, multiplier, order) ==
    IF order = <<>> THEN r
    ELSE SplitLoop(SplitVisit(r, multiplier, Head(order)), multiplier,
                   Tail(order))

\* One iteration of the dividend loop that takes every account's dividend
\* shares from the current balance of one fixed account instead of the
\* account's own.
DividendVisit_FromOneAccount(r, shareRatio, address) ==
    LET balance        == r.balances[CHOOSE x \in DOMAIN r.balances : TRUE]
        dividendShares == MulDiv(balance, shareRatio, basePrecision)
    IN  [balances |-> [r.balances EXCEPT ![address] = @ + dividendShares],
         visits   |-> [r.visits EXCEPT ![address] = @ + 1]]

\* one iteration of the dividend loop
DividendVisit(r, shareRatio, address) ==
    LET balance        == r.balances[address]
        dividendShares == MulDiv(balance, shareRatio, basePrecision)
    IN  [balances |-> [r.balances EXCEPT ![address] = @ + dividendShares],
         visits   |-> [r.visits EXCEPT ![address] = @ + 1]]

\* the dividend loop, visiting the accounts in `order`
RECURSIVE DividendLoop(_, _, _)
DividendLoop(r, shareRatio, order) ==
    IF order = <<>> THEN r
    ELSE DividendLoop(DividendVisit(r, shareRatio, Head(order)), shareRatio,
                      Tail(order))

\* StockToken.Rebase(action), case uint64, its loop visiting in `order`
RebaseSplitOrdered(w, v, order) ==
    LET multiplier == Int64Of(v)
        done       == SplitLoop(LoopStart(w.st.balances), multiplier, order)
    IN  Ok([w EXCEPT !.st.balances = done.balances,
                     !.st.rebaseMultiplier = multiplier])

\* StockToken.Rebase(action), case Dividend, its loop visiting in `order`
RebaseDividendOrdered(w, v, order) ==
    IF v.sharePrice = 0
    THEN Panic(w)
    ELSE LET done == DividendLoop(LoopStart(w.st.balances), ShareRatio(v),
                                  order)
         IN  Ok([w EXCEPT !.st.balances = done.balances])

\* ------------------------------------------------------- OndoWrappedStock
\* Wrap that mints at par: the wrapped amount is the amount itself, whatever
\* the exchange rate.
Wrap_MintsAtPar(w, from, amount) ==
    IF ~Has(w.st.balances, from) THEN Panic(w)
    ELSE IF w.st.balances[from] < amount THEN Panic(w)
    ELSE IF w.ow.exchangeRate = 0 THEN Panic(w)
    ELSE
      LET owAmount == amount
          b1 == [w.st.balances EXCEPT ![from] = @ - amount]
          b2 == Put(b1, owTicker,
                    (IF Has(b1, owTicker) THEN b1[owTicker] ELSE 0) + amount)
          o1 == Put(w.ow.balances, from,
                    (IF Has(w.ow.balances, from) THEN w.ow.balances[from] ELSE 0)
                        + owAmount)
      IN  Ok([w EXCEPT !.st.balances = b2,
                       !.ow.balances = o1,
                       !.ow.totalSupply = @ + owAmount])

\* OndoWrappedStock.Wrap(st, from, amount)
Wrap(w, from, amount) ==
    IF ~Has(w.st.balances, from) THEN Panic(w)          \* nil.Cmp
    ELSE IF w.st.balances[from] < amount THEN Panic(w)  \* "Insufficient TSLA balance"
    ELSE IF w.ow.exchangeRate = 0 THEN Panic(w)         \* owAmount.Div by zero
    ELSE
      LET owAmount == MulDiv(amount, basePrecision, w.ow.exchangeRate)
          b1 == [w.st.balances EXCEPT ![from] = @ - amount]
          b2 == Put(b1, owTicker,
                    (IF Has(b1, owTicker) THEN b1[owTicker] ELSE 0) + amount)
          o1 == Put(w.ow.balances, from,
                    (IF Has(w.ow.balances, from) THEN w.ow.balances[from] ELSE 0)
                        + owAmount)
      IN  Ok([w EXCEPT !.st.balances = b2,
                       !.ow.balances = o1,
                       !.ow.totalSupply = @ + owAmount])

\* The tail of Unwrap that credits the recipient with the wrapped amount
\* burnt instead of the underlying amount taken from the custody balance.
UnwrapFrom_CreditsWrappedAmount(w, holder, to, owAmount, creates) ==
    IF ~Has(w.ow.balances, holder) THEN Panic(w)
    ELSE IF w.ow.balances[holder] < owAmount THEN Panic(w)
    ELSE
      LET tslaAmount == MulDiv(owAmount, w.ow.exchangeRate, basePrecision)
          burnt == [w EXCEPT !.ow.balances[holder] = @ - owAmount,
                             !.ow.totalSupply = @ - owAmount]
      IN  IF ~Has(w.st.balances, owTicker) THEN Panic(burnt)
          ELSE
            LET debited == [burnt EXCEPT !.st.balances[owTicker] = @ - tslaAmount]
            IN  IF ~Has(debited.st.balances, to)
                THEN IF creates
                     THEN Ok([debited EXCEPT !.st.balances = Put(@, to, owAmount)])
                     ELSE Panic(debited)
                ELSE Ok([debited EXCEPT !.st.balances[to] = @ + owAmount])

\* The tail shared by both versions of Unwrap: burn owAmount from `holder`,
\* then move the underlying from the custody balance to `to`.  `creates`
\* tells whether the version creates a missing balance of `to` (part_001
\* does, main.go does not).
UnwrapFrom(w, holder, to, owAmount, creates) ==
    IF ~Has(w.ow.balances, holder) THEN Panic(w)
    ELSE IF w.ow.balances[holder] < owAmount THEN Panic(w)
    ELSE
      LET tslaAmount == MulDiv(owAmount, w.ow.exchangeRate, basePrecision)
          burnt == [w EXCEPT !.ow.balances[holder] = @ - owAmount,
                             !.ow.totalSupply = @ - owAmount]
      IN  IF ~Has(w.st.balances, owTicker) THEN Panic(burnt)   \* nil.Sub
          ELSE
            LET debited == [burnt EXCEPT !.st.balances[owTicker] = @ - tslaAmount]
            IN  IF ~Has(debited.st.balances, to)
                THEN IF creates
                     THEN Ok([debited EXCEPT !.st.balances = Put(@, to, tslaAmount)])
                     ELSE Panic(debited)                       \* nil.Add
                ELSE Ok([debited EXCEPT !.st.balances[to] = @ + tslaAmount])

\* OndoWrappedStock.Unwrap(st, to, owAmount) of part_001
Unwrap(w, to, owAmount) == UnwrapFrom(w, contractAddr, to, owAmount, TRUE)

\* OndoWrappedStock.Unwrap(st, from, owAmount) of main.go
UnwrapHolder(w, from, owAmount) == UnwrapFrom(w, from, from, owAmount, FALSE)

\* UpdateExchangeRate that reads the stock totalSupply instead of the custody
\* balance.
UpdateExchangeRate_FromTotalSupply(w) ==
    IF w.ow.totalSupply = 0 THEN Ok(w)
    ELSE IF ~Has(w.st.balances, owTicker) THEN Panic(w)
    ELSE Ok([w EXCEPT !.ow.exchangeRate =
                 MulDiv(w.st.totalSupply, basePrecision, w.ow.totalSupply)])

\* OndoWrappedStock.UpdateExchangeRate(tsla)
UpdateExchangeRate(w) ==
    IF w.ow.totalSupply = 0 THEN Ok(w)
    ELSE IF ~Has(w.st.balances, owTicker) THEN Panic(w)     \* Mul on nil
    ELSE Ok([w EXCEPT !.ow.exchangeRate =
                 MulDiv(w.st.balances[owTicker], basePrecision, w.ow.totalSupply)])

\* Transfer that creates the recipient's entry before it checks the sender's
\* balance.
Transfer_CreatesRecipientFirst(w, from, to, amount) ==
    LET b0 == IF Has(w.ow.balances, to) THEN w.ow.balances
                                        ELSE Put(w.ow.balances, to, 0)
        w0 == [w EXCEPT !.ow.balances = b0]
    IN  IF ~Has(w.ow.balances, from) THEN Panic(w0)
        ELSE IF w.ow.balances[from] < amount THEN Panic(w0)
        ELSE
          LET b1 == [b0 EXCEPT ![from] = @ - amount]
              b2 == [b1 EXCEPT ![to] = @ + amount]
          IN  Ok([w EXCEPT !.ow.balances = b2])

\* Transfer that computes the recipient's new balance from the balance read
\* before the sender was debited: a transfer to oneself credits the amount
\* without debiting it.
Transfer_CreditsStaleBalance(w, from, to, amount) ==
    IF ~Has(w.ow.balances, from) THEN Panic(w)
    ELSE IF w.ow.balances[from] < amount THEN Panic(w)
    ELSE
      LET b0 == IF Has(w.ow.balances, to) THEN w.ow.balances
                                          ELSE Put(w.ow.balances, to, 0)
          b1 == [b0 EXCEPT ![from] = @ - amount]
          b2 == [b1 EXCEPT ![to] = b0[to] + amount]
      IN  Ok([w EXCEPT !.ow.balances = b2])

\* OndoWrappedStock.Transfer(from, to, amount)
Transfer(w, from, to, amount) ==
    IF ~Has(w.ow.balances, from) THEN Panic(w)              \* nil.Cmp
    ELSE IF w.ow.balances[from] < amount THEN Panic(w)      \* "Insufficient balance"
    ELSE
      LET b0 == IF Has(w.ow.balances, to) THEN w.ow.balances
                                          ELSE Put(w.ow.balances, to, 0)
          b1 == [b0 EXCEPT ![from] = @ - amount]
          b2 == [b1 EXCEPT ![to] = @ + amount]
      IN  Ok([w EXCEPT !.ow.balances = b2])

\* Interact that forwards `amount` wrapped tokens instead of the amount Wrap
\* minted.
Interact_TransfersAmount(w, from, to, amount) ==
    IF HasContractPrefix(to)
    THEN LET wrapped == Wrap(w, from, amount)
         IN  IF ~wrapped.ok THEN wrapped
             ELSE Transfer(wrapped.w, from, to, amount)
    ELSE IF ~Has(w.st.balances, from) THEN Panic(w)
    ELSE IF w.st.balances[from] < amount THEN Panic(w)
    ELSE
      LET b0 == IF Has(w.st.balances, to) THEN w.st.balances
                                          ELSE Put(w.st.balances, to, 0)
          b1 == [b0 EXCEPT ![from] = @ - amount]
          b2 == [b1 EXCEPT ![to] = @ + amount]
      IN  Ok([w EXCEPT !.st.balances = b2])

\* Interact whose regular branch has lost its balance check: it moves the
\* amount whatever the sender holds.
Interact_NoBalanceCheck(w, from, to, amount) ==
    IF HasContractPrefix(to)
    THEN LET wrapped == Wrap(w, from, amount)
         IN  IF ~wrapped.ok THEN wrapped
             ELSE
               LET wrappedAmount ==
                       MulDiv(amount, basePrecision, wrapped.w.ow.exchangeRate)
               IN  Transfer(wrapped.w, from, to, wrappedAmount)
    ELSE IF ~Has(w.st.balances, from) THEN Panic(w)
    ELSE
      LET b0 == IF Has(w.st.balances, to) THEN w.st.balances
                                          ELSE Put(w.st.balances, to, 0)
          b1 == [b0 EXCEPT ![from] = @ - amount]
          b2 == [b1 EXCEPT ![to] = @ + amount]
      IN  Ok([w EXCEPT !.st.balances = b2])

\* StockToken.Interact(from, to, amount, ows)
Interact(w, from, to, amount) ==
    IF HasContractPrefix(to)
    THEN LET wrapped == Wrap(w, from, amount)
         IN  IF ~wrapped.ok THEN wrapped
             ELSE \* ows.exchangeRate is nonzero here: Wrap divided by it
               LET wrappedAmount ==
                       MulDiv(amount, basePrecision, wrapped.w.ow.exchangeRate)
               IN  Transfer(wrapped.w, from, to, wrappedAmount)
    ELSE IF ~Has(w.st.balances, from) THEN Panic(w)         \* nil.Cmp
    ELSE IF w.st.balances[from] < amount THEN Panic(w)      \* "Insufficient balance"
    ELSE
      LET b0 == IF Has(w.st.balances, to) THEN w.st.balances
                                          ELSE Put(w.st.balances, to, 0)
          b1 == [b0 EXCEPT ![from] = @ - amount]
          b2 == [b1 EXCEPT ![to] = @ + amount]
      IN  Ok([w EXCEPT !.st.balances = b2])

\* OndoWrappedStock.Claim(st, from, to, wrappedAmount)
Claim(w, from, to, wrappedAmount) ==
    IF ~HasContractPrefix(from) THEN Panic(w)   \* "Can only claim from contract addresses"
    ELSE IF ~Has(w.ow.balances, from)
         THEN Panic(w)                          \* formatTokens(nil)
    ELSE LET clamped == IF w.ow.balances[from] < wrappedAmount
                        THEN w.ow.balances[from] ELSE wrappedAmount
         IN  Unwrap(w, to, clamped)

\* A caller's round trip in src/unnamed/part_001: Wrap(st, from, amount), then
\* at once Unwrap(st, from, owAmount) of the wrapped amount Wrap credited.
RoundTrip(w, from, amount) ==
    LET wrapped == Wrap(w, from, amount)
    IN  IF ~wrapped.ok THEN wrapped
        ELSE Unwrap(wrapped.w, from,
                    wrapped.w.ow.totalSupply - w.ow.totalSupply)

\* The same round trip in src/main.go, whose Unwrap burns from its holder.
RoundTripHolder(w, from, amount) ==
    LET wrapped == Wrap(w, from, amount)
    IN  IF ~wrapped.ok THEN wrapped
        ELSE UnwrapHolder(wrapped.w, from,
                          wrapped.w.ow.totalSupply - w.ow.totalSupply)

\* ------------------------------------------------------------------ inputs
\* share counts and split multipliers below 2^63
ShareCounts == {U64(0), U64(1)}
Multipliers == {U64(1), U64(2)}
\* uint64 values of 2^63 and above: 2^64 - 1
TopU64 == {U64FromTop(1)}

\* Dividend{cashAmount, sharePrice}, in cents
Dividends == {[cashAmount |-> 150, sharePrice |-> p] : p \in {0, 10000}}
NoDividend == [cashAmount |-> 0, sharePrice |-> 0]
\* dividends whose sharePrice is any big.Int: negative, zero or positive,
\* dividing 1,000,000 * cashAmount exactly or not
DividendsAnyPrice ==
    {[cashAmount |-> 150, sharePrice |-> p] : p \in {-10000, -7000, 0, 7000, 10000}}

\* the literals of main, each drawn from a few values around main's own:
\* shares minted, shares sent to the contract, the dividend's cash amount
\* and the wrapped shares claimed
MainShares == {U64(8), U64(9), U64(10)}
MainTransfers == {4, 5}
MainCash == {[whole |-> w, hundredths |-> 50] : w \in {0, 1}}
MainClaims == {1, 2}

\* amounts in raw units: one raw unit and one share
Amounts == {1, basePrecision}

\* ----------------------------------------------------------------- actions
W == [st |-> st, ow |-> ow]

Call(op, from, to, amount, u64, div) ==
    [op |-> op, from |-> from, to |-> to, amount |-> amount,
     u64 |-> u64, div |-> div, ok |-> TRUE]

\* every number of the world is within the model's integers
InRange(w) ==
    /\ \A a \in DOMAIN w.st.balances : Abs(w.st.balances[a]) < Limit
    /\ \A a \in DOMAIN w.ow.balances : Abs(w.ow.balances[a]) < Limit
    /\ Abs(w.st.totalSupply) < Limit
    /\ Abs(w.ow.totalSupply) < Limit
    /\ Abs(w.ow.exchangeRate) < Limit

\* the share ratio of a dividend is within the model's integers
ShareRatioInRange(v) ==
    IF v.sharePrice = 0 THEN TRUE
    ELSE Abs(ShareRatio(v)) < Limit

\* What the run has seen so far: a Rebase call (split or dividend), and an
\* UpdateExchangeRate call that found wrapped tokens outstanding and returned.
Seen(call, res) ==
    [rebase |-> seen.rebase \/ call.op \in {"RebaseSplit", "RebaseDividend"},
     update |-> seen.update \/ (/\ call.op = "UpdateExchangeRate"
                                 /\ res.ok
                                 /\ ow.totalSupply > 0)]

\* One call of the program: it runs to its return or to its panic, and a
\* panic ends the run.
Within(bound, call, res) ==
    /\ last.ok
    /\ steps < bound
    /\ InRange(res.w)
    /\ st' = res.w.st
    /\ ow' = res.w.ow
    /\ last' = [call EXCEPT !.ok = res.ok]
    /\ pre' = W
    /\ steps' = steps + 1
    /\ calls' = calls
    /\ seen' = Seen(call, res)

Step(call, res) == Within(MaxSteps, call, res)

Init ==
    /\ st = NewStockToken
    /\ ow = NewOndoWrappedStock
    /\ last = Call("new", "", "", 0, U64(0), NoDividend)
    /\ pre = [st |-> NewStockToken, ow |-> NewOndoWrappedStock]
    /\ steps = 0
    /\ calls = <<>>
    /\ seen = [rebase |-> FALSE, update |-> FALSE]

MintCall(A, S) ==
    \E address \in A, shares \in S :
        Step(Call("Mint", "", address, 0, shares, NoDividend),
             Mint(W, address, shares))

RebaseSplitCall(S) ==
    \E v \in S :
        Step(Call("RebaseSplit", "", "", 0, v, NoDividend), RebaseSplit(W, v))

RebaseDividendCall(D) ==
    \E v \in D :
        /\ ShareRatioInRange(v)
        /\ Step(Call("RebaseDividend", "", "", 0, U64(0), v),
                RebaseDividend(W, v))

WrapCall(A) ==
    \E from \in A, amount \in Amounts :
        Step(Call("Wrap", from, "", amount, U64(0), NoDividend),
             Wrap(W, from, amount))

UnwrapCall(A) ==
    \E to \in A, owAmount \in Amounts :
        Step(Call("Unwrap", "", to, owAmount, U64(0), NoDividend),
             Unwrap(W, to, owAmount))

UnwrapHolderCall(A) ==
    \E from \in A, owAmount \in Amounts :
        Step(Call("UnwrapHolder", from, "", owAmount, U64(0), NoDividend),
             UnwrapHolder(W, from, owAmount))

UpdateExchangeRateCall ==
    Step(Call("UpdateExchangeRate", "", "", 0, U64(0), NoDividend),
         UpdateExchangeRate(W))

TransferCall(A) ==
    \E from \in A, to \in A, amount \in Amounts :
        Step(Call("Transfer", from, to, amount, U64(0), NoDividend),
             Transfer(W, from, to, amount))

InteractCall(A) ==
    \E from \in A, to \in A, amount \in Amounts :
        Step(Call("Interact", from, to, amount, U64(0), NoDividend),
             Interact(W, from, to, amount))

ClaimCall(A) ==
    \E from \in A, to \in A, wrappedAmount \in Amounts :
        Step(Call("Claim", from, to, wrappedAmount, U64(0), NoDividend),
             Claim(W, from, to, wrappedAmount))

RoundTripCall(A) ==
    \E from \in A, amount \in Amounts :
        Step(Call("RoundTrip", from, from, amount, U64(0), NoDividend),
             RoundTrip(W, from, amount))

RoundTripHolderCall(A) ==
    \E from \in A, amount \in Amounts :
        Step(Call("RoundTripHolder", from, from, amount, U64(0), NoDividend),
             RoundTripHolder(W, from, amount))

\* src/unnamed/part_001: a user, the contract and the custody key; share
\* counts and multipliers below 2^63
Next ==
    \/ MintCall(Addr, ShareCounts)
    \/ RebaseSplitCall(Multipliers)
    \/ RebaseDividendCall(Dividends)
    \/ WrapCall(Addr)
    \/ UnwrapCall(Addr)
    \/ UpdateExchangeRateCall
    \/ TransferCall(Addr)
    \/ InteractCall(Addr)
    \/ ClaimCall(Addr)

Spec == Init /\ [][Next]_vars

\* src/unnamed/part_001 over the whole uint64 range of share counts and
\* multipliers
NextU64 ==
    \/ MintCall(Addr, ShareCounts \cup TopU64)
    \/ RebaseSplitCall(Multipliers \cup TopU64)
    \/ RebaseDividendCall(Dividends)
    \/ WrapCall(Addr)
    \/ UnwrapCall(Addr)
    \/ UpdateExchangeRateCall
    \/ TransferCall(Addr)
    \/ InteractCall(Addr)
    \/ ClaimCall(Addr)

SpecU64 == Init /\ [][NextU64]_vars

\* src/unnamed/part_001 with a second contract-prefixed address
NextPrefix ==
    \/ MintCall(AddrPrefix, ShareCounts)
    \/ RebaseSplitCall(Multipliers)
    \/ RebaseDividendCall(Dividends)
    \/ WrapCall(AddrPrefix)
    \/ UnwrapCall(AddrPrefix)
    \/ UpdateExchangeRateCall
    \/ TransferCall(AddrPrefix)
    \/ InteractCall(AddrPrefix)
    \/ ClaimCall(AddrPrefix)

SpecPrefix == Init /\ [][NextPrefix]_vars

\* src/main.go: Unwrap burns from its holder, and there is no Claim
NextMain ==
    \/ MintCall(Addr, ShareCounts)
    \/ RebaseSplitCall(Multipliers)
    \/ RebaseDividendCall(Dividends)
    \/ WrapCall(Addr)
    \/ UnwrapHolderCall(Addr)
    \/ UpdateExchangeRateCall
    \/ TransferCall(Addr)
    \/ InteractCall(Addr)

SpecMain == Init /\ [][NextMain]_vars

\* src/unnamed/part_000: the token alone, minted and split
NextMintSplit ==
    \/ MintCall(AddrPrefix, ShareCounts)
    \/ RebaseSplitCall(Multipliers)

SpecMintSplit == Init /\ [][NextMintSplit]_vars

\* src/unnamed/part_001: the token with dividends of any sharePrice, its
\* balances spread by Interact
NextDividend ==
    \/ MintCall(Addr, ShareCounts)
    \/ InteractCall(Addr)
    \/ RebaseDividendCall(DividendsAnyPrice)

SpecDividend == Init /\ [][NextDividend]_vars

\* src/unnamed/part_001, a longer run of a few calls: a user mints, sends a
\* share to the contract, the custody key's stock is moved out, the contract's
\* wrapped tokens are claimed, the user wraps, and the rate is updated

\* the transfers of that run: user to contract (auto-wrap), custody key to
\* user and user to custody key (regular)
DrainTransfers ==
    {[from |-> reece, to |-> contractAddr, amount |-> basePrecision],
     [from |-> reece, to |-> contractAddr, amount |-> 1],
     [from |-> owTicker, to |-> reece, amount |-> basePrecision],
     [from |-> reece, to |-> owTicker, amount |-> basePrecision]}

DrainMint ==
    Within(MaxDrainSteps, Call("Mint", "", reece, 0, U64(1), NoDividend),
           Mint(W, reece, U64(1)))

DrainInteract ==
    \E t \in DrainTransfers :
        Within(MaxDrainSteps,
               Call("Interact", t.from, t.to, t.amount, U64(0), NoDividend),
               Interact(W, t.from, t.to, t.amount))

DrainClaim ==
    Within(MaxDrainSteps,
           Call("Claim", contractAddr, reece, 1, U64(0), NoDividend),
           Claim(W, contractAddr, reece, 1))

DrainWrap ==
    Within(MaxDrainSteps, Call("Wrap", reece, "", 1, U64(0), NoDividend),
           Wrap(W, reece, 1))

DrainUpdateExchangeRate ==
    Within(MaxDrainSteps,
           Call("UpdateExchangeRate", "", "", 0, U64(0), NoDividend),
           UpdateExchangeRate(W))

NextDrain ==
    \/ DrainMint
    \/ DrainInteract
    \/ DrainClaim
    \/ DrainWrap
    \/ DrainUpdateExchangeRate

SpecDrain == Init /\ [][NextDrain]_vars

\* src/unnamed/part_001: wrapping and unwrapping at rates moved by splits and
\* dividends
NextRoundTrip ==
    \/ MintCall(Addr, ShareCounts)
    \/ WrapCall(Addr)
    \/ RebaseSplitCall(Multipliers)
    \/ RebaseDividendCall(Dividends)
    \/ UpdateExchangeRateCall
    \/ RoundTripCall(Addr)

SpecRoundTrip == Init /\ [][NextRoundTrip]_vars

\* src/main.go: the same, with the holder-based Unwrap
NextRoundTripMain ==
    \/ MintCall(Addr, ShareCounts)
    \/ WrapCall(Addr)
    \/ RebaseSplitCall(Multipliers)
    \/ RebaseDividendCall(Dividends)
    \/ UpdateExchangeRateCall
    \/ RoundTripHolderCall(Addr)

SpecRoundTripMain == Init /\ [][NextRoundTripMain]_vars

\* One call of main, at position pc of its sequence of calls.
MainStep(pc, call, res) ==
    /\ last.ok
    /\ steps = pc
    /\ InRange(res.w)
    /\ st' = res.w.st
    /\ ow' = res.w.ow
    /\ last' = [call EXCEPT !.ok = res.ok]
    /\ pre' = W
    /\ steps' = steps + 1
    /\ calls' = Append(calls, call)
    /\ seen' = Seen(call, res)

\* stockToken.Mint(reece, 10)
MainMint ==
    \E shares \in MainShares :
        MainStep(0, Call("Mint", "", reece, 0, shares, NoDividend),
                 Mint(W, reece, shares))

\* stockToken.Interact(reece, contract, transferAmount, owStock)
MainInteract ==
    \E n \in MainTransfers :
        LET transferAmount == n * basePrecision
        IN  MainStep(1, Call("Interact", reece, contractAddr, transferAmount,
                             U64(0), NoDividend),
                     Interact(W, reece, contractAddr, transferAmount))

\* stockToken.sharePrice.Div(stockToken.sharePrice, big.NewInt(2)), then
\* stockToken.Rebase(uint64(2))
MainSplit ==
    \E v \in Multipliers :
        MainStep(2, Call("RebaseSplit", "", "", 0, v, NoDividend),
                 RebaseSplit([W EXCEPT !.st.sharePrice = MulDiv(@, 1, 2)], v))

\* owStock.UpdateExchangeRate(stockToken), after the split and after the
\* dividend
MainUpdateExchangeRate ==
    \E pc \in {3, 5} :
        MainStep(pc, Call("UpdateExchangeRate", "", "", 0, U64(0), NoDividend),
                 UpdateExchangeRate(W))

\* stockToken.Rebase(Dividend{dollarsToCents("$1.50"), stockToken.sharePrice})
MainDividend ==
    \E cash \in MainCash :
        LET dividend == [cashAmount |-> dollarsToCents(cash),
                         sharePrice |-> st.sharePrice]
        IN  MainStep(4, Call("RebaseDividend", "", "", 0, U64(0), dividend),
                     RebaseDividend(W, dividend))

\* owStock.Claim(stockToken, contract, reece, claimAmount)
MainClaim ==
    \E n \in MainClaims :
        LET claimAmount == n * basePrecision
        IN  MainStep(6, Call("Claim", contractAddr, reece, claimAmount,
                             U64(0), NoDividend),
                     Claim(W, contractAddr, reece, claimAmount))

\* main of src/unnamed/part_001
NextScenario ==
    \/ MainMint
    \/ MainInteract
    \/ MainSplit
    \/ MainUpdateExchangeRate
    \/ MainDividend
    \/ MainClaim

SpecScenario == Init /\ [][NextScenario]_vars

\* src/unnamed/part_001 with the custody key left alone: no Mint to it, no
\* Wrap or Interact from it, no direct Unwrap; split multipliers below 2^63
NextSolvency ==
    \/ MintCall(NonCustody, ShareCounts)
    \/ RebaseSplitCall(Multipliers)
    \/ RebaseDividendCall(Dividends)
    \/ WrapCall(NonCustody)
    \/ UpdateExchangeRateCall
    \/ TransferCall(Addr)
    \/ InteractCall(NonCustody)
    \/ ClaimCall(Addr)

SpecSolvency == Init /\ [][NextSolvency]_vars

\* the same over the whole uint64 range of split multipliers
NextSolvencyU64 ==
    \/ MintCall(NonCustody, ShareCounts)
    \/ RebaseSplitCall(Multipliers \cup TopU64)
    \/ RebaseDividendCall(Dividends)
    \/ WrapCall(NonCustody)
    \/ UpdateExchangeRateCall
    \/ TransferCall(Addr)
    \/ InteractCall(NonCustody)
    \/ ClaimCall(Addr)

SpecSolvencyU64 == Init /\ [][NextSolvencyU64]_vars

\* src/unnamed/part_001: the token with its balances spread by Interact, and
\* Rebase visiting the accounts in any order
RebaseSplitOrderedCall(S) ==
    \E v \in S, order \in Orders(DOMAIN st.balances) :
        Step(Call("RebaseSplit", "", "", 0, v, NoDividend),
             RebaseSplitOrdered(W, v, order))

RebaseDividendOrderedCall(D) ==
    \E v \in D, order \in Orders(DOMAIN st.balances) :
        /\ ShareRatioInRange(v)
        /\ Step(Call("RebaseDividend", "", "", 0, U64(0), v),
                RebaseDividendOrdered(W, v, order))

NextOrder ==
    \/ MintCall(Addr, ShareCounts)
    \/ InteractCall(Addr)
    \/ RebaseSplitOrderedCall(Multipliers)
    \/ RebaseDividendOrderedCall(Dividends)

SpecOrder == Init /\ [][NextOrder]_vars

\* ------------------------------------------------------------- properties
\* absent key = zero balance
Bal(m, a) == IF Has(m, a) THEN m[a] ELSE 0

RECURSIVE SumOver(_, _)
SumOver(m, keys) ==
    IF keys = {} THEN 0
    ELSE LET k == CHOOSE x \in keys : TRUE
         IN  m[k] + SumOver(m, keys \ {k})

\* the sum of all balances of a ledger
SumBalances(m) == SumOver(m, DOMAIN m)

\* floor(x * y / d) for d # 0
Floor(x, y, d) == IF d > 0 THEN MulDiv(x, y, d) ELSE MulDiv(-x, y, -d)

\* delta = n * basePrecision, for a uint64 n given by its limbs
IsSharesTimesScale(delta, n) ==
    /\ delta >= 0
    /\ delta % basePrecision = 0
    /\ U64(delta \div basePrecision) = n

\* every balance of m other than those of the addresses in `except` is as in m0
SameExcept(m, m0, except) ==
    \A a \in ((DOMAIN m) \cup (DOMAIN m0)) \ except :
        /\ Has(m, a) = Has(m0, a)
        /\ Bal(m, a) = Bal(m0, a)

\* C1: Mint(a, n) increases the stock totalSupply and the balance of a by
\* exactly n * 1,000,000 each, and leaves every other stock balance, every
\* wrapper balance, the wrapper totalSupply and the exchange rate unchanged.
C1_MintConservation ==
    last.op = "Mint" =>
        /\ IsSharesTimesScale(st.totalSupply - pre.st.totalSupply, last.u64)
        /\ IsSharesTimesScale(Bal(st.balances, last.to) - Bal(pre.st.balances, last.to),
                              last.u64)
        /\ SameExcept(st.balances, pre.st.balances, {last.to})
        /\ ow = pre.ow

\* C2: the stock totalSupply equals the sum of all stock balances in every
\* state reached by Mint and Rebase(split multiplier) calls.
C2_SupplyIsSumOfBalances ==
    st.totalSupply = SumBalances(st.balances)

\* C3: the exchange rate is strictly positive in every reachable state, and
\* UpdateExchangeRate never divides by zero (it always returns).
C3_ExchangeRatePositive ==
    /\ ow.exchangeRate > 0
    /\ last.op = "UpdateExchangeRate" => last.ok

\* C4: every balance of the stock ledger (the custody balance included) and
\* of the wrapper ledger is non-negative after any sequence of calls that
\* each returned.
C4_BalancesNonNegative ==
    last.ok =>
        /\ \A a \in DOMAIN st.balances : st.balances[a] >= 0
        /\ \A a \in DOMAIN ow.balances : ow.balances[a] >= 0

\* the stock ledger after the call is the one before it with `a` debited
\* from `from` and credited to `to` (the two cancel when from = to)
StockMoved(from, to, a) ==
    \A x \in AddrPrefix :
        Bal(st.balances, x) =
            Bal(pre.st.balances, x) - (IF x = from THEN a ELSE 0)
                                    + (IF x = to THEN a ELSE 0)

\* the wrapper ledger after the call is the one before it with `a` added to
\* the balance of `to` and nothing else changed
WrappedCredited(to, a) ==
    \A x \in AddrPrefix :
        Bal(ow.balances, x) =
            Bal(pre.ow.balances, x) + (IF x = to THEN a ELSE 0)

Min(x, y) == IF x < y THEN x ELSE y

Unchanged == st = pre.st /\ ow = pre.ow

\* C5: a call of Wrap, Interact, Transfer, Claim or Rebase that fails leaves
\* the balances and totalSupply of both ledgers, rebaseMultiplier and
\* exchangeRate as they were before the call.
C5_AllOrNothing ==
    (/\ ~last.ok
     /\ last.op \in {"Wrap", "Interact", "Transfer", "Claim",
                     "RebaseSplit", "RebaseDividend"})
        => Unchanged

\* C5 witness: an auto-wrapping Interact of a sender with enough stock has
\* failed on the zero exchange rate it divides by.
C5_Witness ==
    /\ ~last.ok
    /\ last.op = "Interact"
    /\ HasContractPrefix(last.to)
    /\ Has(pre.st.balances, last.from)
    /\ pre.st.balances[last.from] >= last.amount
    /\ pre.ow.exchangeRate = 0

\* C6: Unwrap(st, holder, w) of the holder-based version, for a holder whose
\* wrapped balance is at least w, either applies all four updates (holder's
\* wrapped balance and the wrapper totalSupply less w, custody less
\* floor(w * exchangeRate / 1,000,000), holder's stock balance more by the
\* same) or none of them.
C6_UnwrapAtomic ==
    (/\ last.op = "UnwrapHolder"
     /\ Has(pre.ow.balances, last.from)
     /\ pre.ow.balances[last.from] >= last.amount)
        => LET u == Floor(last.amount, pre.ow.exchangeRate, basePrecision)
           IN  \/ /\ WrappedCredited(last.from, -last.amount)
                  /\ ow.totalSupply = pre.ow.totalSupply - last.amount
                  /\ StockMoved(owTicker, last.from, u)
               \/ Unchanged

\* C7: Claim from a contract-prefixed source never fails, whatever amount is
\* asked and whether or not the source has a wrapped balance: it burns
\* c = min(w, wrapped balance of the source) and credits the recipient
\* floor(c * exchangeRate / 1,000,000) underlying units.
C7_ClaimNeverFails ==
    (last.op = "Claim" /\ HasContractPrefix(last.from))
        => LET c == Min(last.amount, Bal(pre.ow.balances, last.from))
               u == Floor(c, pre.ow.exchangeRate, basePrecision)
           IN  /\ last.ok
               /\ ow.totalSupply = pre.ow.totalSupply - c
               /\ StockMoved(owTicker, last.to, u)

\* C8: Claim(st, from, to, w) burns the (possibly clamped) amount from the
\* wrapped balance of `from` itself and from the wrapper totalSupply, moves
\* the underlying from custody to `to`, and changes no other wrapped balance.
C8_ClaimBurnsFromSource ==
    (last.op = "Claim" /\ last.ok)
        => LET c == Min(last.amount, Bal(pre.ow.balances, last.from))
               u == Floor(c, pre.ow.exchangeRate, basePrecision)
           IN  /\ WrappedCredited(last.from, -c)
               /\ ow.totalSupply = pre.ow.totalSupply - c
               /\ StockMoved(owTicker, last.to, u)

\* C9 as stated: Wrap(st, from, a) with stock balance of from >= a decreases
\* from's stock balance by a, increases the custody stock balance by a, and
\* increases from's wrapped balance and the wrapper totalSupply by
\* floor(a * 1,000,000 / exchangeRate); nothing else changes.
C9_WrapEffectAsStated ==
    (/\ last.op = "Wrap"
     /\ Has(pre.st.balances, last.from)
     /\ pre.st.balances[last.from] >= last.amount)
        => /\ last.ok
           /\ Bal(st.balances, last.from)
                  = Bal(pre.st.balances, last.from) - last.amount
           /\ Bal(st.balances, owTicker)
                  = Bal(pre.st.balances, owTicker) + last.amount
           /\ SameExcept(st.balances, pre.st.balances, {last.from, owTicker})
           /\ WrappedCredited(last.from,
                  Floor(last.amount, basePrecision, pre.ow.exchangeRate))
           /\ ow.totalSupply = pre.ow.totalSupply
                  + Floor(last.amount, basePrecision, pre.ow.exchangeRate)
           /\ st.totalSupply = pre.st.totalSupply
           /\ ow.exchangeRate = pre.ow.exchangeRate

\* C9 amended: Wrap(st, from, a) with stock balance of from >= a and a
\* positive exchangeRate returns, debits a from from's stock balance and
\* credits a to the custody stock balance (the two cancel when from is the
\* custody key itself), and increases from's wrapped balance and the wrapper
\* totalSupply by floor(a * 1,000,000 / exchangeRate); nothing else changes.
\* With exchangeRate = 0 the call fails and changes nothing.
C9_WrapEffect ==
    (/\ last.op = "Wrap"
     /\ Has(pre.st.balances, last.from)
     /\ pre.st.balances[last.from] >= last.amount)
        => /\ pre.ow.exchangeRate > 0 =>
                /\ last.ok
                /\ StockMoved(last.from, owTicker, last.amount)
                /\ WrappedCredited(last.from,
                       Floor(last.amount, basePrecision, pre.ow.exchangeRate))
                /\ ow.totalSupply = pre.ow.totalSupply
                       + Floor(last.amount, basePrecision, pre.ow.exchangeRate)
                /\ st.totalSupply = pre.st.totalSupply
                /\ st.rebaseMultiplier = pre.st.rebaseMultiplier
                /\ ow.exchangeRate = pre.ow.exchangeRate
           /\ pre.ow.exchangeRate = 0 => ~last.ok /\ Unchanged

\* C9 witness: a Wrap has returned at a rate other than 1:1 where the
\* division a * 1,000,000 / exchangeRate leaves a remainder.
C9_Witness ==
    /\ last.op = "Wrap"
    /\ last.ok
    /\ pre.ow.exchangeRate > 0
    /\ pre.ow.exchangeRate # basePrecision
    /\ MulDivMod(last.amount, basePrecision, pre.ow.exchangeRate)[2] # 0

\* C10 as stated: Interact(from, to, a, wrapper) with a contract-prefixed to
\* leaves to's wrapped balance higher by floor(a * 1,000,000 / exchangeRate),
\* from's wrapped balance as before, from's stock balance a lower and the
\* custody stock balance a higher.
C10_AutoWrapAsStated ==
    (/\ last.op = "Interact"
     /\ HasContractPrefix(last.to)
     /\ last.ok)
        => /\ Bal(ow.balances, last.to) = Bal(pre.ow.balances, last.to)
                  + Floor(last.amount, basePrecision, pre.ow.exchangeRate)
           /\ Bal(ow.balances, last.from) = Bal(pre.ow.balances, last.from)
           /\ Bal(st.balances, last.from)
                  = Bal(pre.st.balances, last.from) - last.amount
           /\ Bal(st.balances, owTicker)
                  = Bal(pre.st.balances, owTicker) + last.amount

\* C10 amended: Interact(from, to, a, wrapper) with a contract-prefixed to,
\* stock balance of from >= a and a positive exchangeRate runs Wrap(from, a)
\* and then a wrapped transfer of the amount m = floor(a * 1,000,000 /
\* exchangeRate) that Wrap minted.  Wrap debits a from from's stock balance
\* and credits it to the custody stock balance (the two cancel when from is
\* the custody key) and adds m to the wrapper totalSupply.  When from's
\* wrapped balance before the call is not negative the transfer goes
\* through and the call returns: to's wrapped balance has grown by m and no
\* other wrapped balance has changed (from's is as before unless from = to).
\* When from's wrapped balance before the call is negative the transfer
\* fails on "Insufficient balance" with the wrap already applied: the minted
\* amount stays with from.  With exchangeRate = 0 the call fails and changes
\* nothing.
C10_AutoWrapEffect ==
    (/\ last.op = "Interact"
     /\ HasContractPrefix(last.to)
     /\ Has(pre.st.balances, last.from)
     /\ pre.st.balances[last.from] >= last.amount)
        => /\ pre.ow.exchangeRate > 0 =>
                LET m == Floor(last.amount, basePrecision, pre.ow.exchangeRate)
                IN  /\ StockMoved(last.from, owTicker, last.amount)
                    /\ ow.totalSupply = pre.ow.totalSupply + m
                    /\ st.totalSupply = pre.st.totalSupply
                    /\ st.rebaseMultiplier = pre.st.rebaseMultiplier
                    /\ ow.exchangeRate = pre.ow.exchangeRate
                    /\ IF Bal(pre.ow.balances, last.from) >= 0
                       THEN last.ok /\ WrappedCredited(last.to, m)
                       ELSE ~last.ok /\ WrappedCredited(last.from, m)
           /\ pre.ow.exchangeRate = 0 => ~last.ok /\ Unchanged

\* C10 witness: an auto-wrapping Interact between two different addresses has
\* returned at a rate other than 1:1, the sender holding wrapped tokens of
\* its own before the call.
C10_Witness ==
    /\ last.op = "Interact"
    /\ HasContractPrefix(last.to)
    /\ last.ok
    /\ last.from # last.to
    /\ pre.ow.exchangeRate > 0
    /\ pre.ow.exchangeRate # basePrecision
    /\ Bal(pre.ow.balances, last.from) > 0

\* an auto-wrapping Interact at a positive rate has failed in its transfer,
\* after its wrap, on a sender whose wrapped balance was negative
C10_PartialFailureReached ==
    /\ last.op = "Interact"
    /\ HasContractPrefix(last.to)
    /\ ~last.ok
    /\ pre.ow.exchangeRate > 0
    /\ Bal(pre.ow.balances, last.from) < 0
    /\ st # pre.st

\* C11: Interact(from, to, a, wrapper) with a `to` that is not
\* contract-prefixed is a plain transfer: if from's stock balance is >= a it
\* decreases from by a and increases to by a (net zero when from = to) and
\* changes nothing else in either ledger; if from's stock balance is < a it
\* fails and no balance changes.
C11_PlainTransfer ==
    (/\ last.op = "Interact"
     /\ ~HasContractPrefix(last.to))
        => IF Bal(pre.st.balances, last.from) >= last.amount
           THEN /\ Has(pre.st.balances, last.from) => last.ok
                /\ StockMoved(last.from, last.to, last.amount)
                /\ st.totalSupply = pre.st.totalSupply
                /\ st.rebaseMultiplier = pre.st.rebaseMultiplier
                /\ ow = pre.ow
           ELSE /\ ~last.ok
                /\ Unchanged

\* C11 witness: a plain Interact between two different addresses has moved
\* its amount while wrapped tokens were outstanding.
C11_Witness ==
    /\ last.op = "Interact"
    /\ ~HasContractPrefix(last.to)
    /\ last.ok
    /\ last.from # last.to
    /\ last.amount > 0
    /\ pre.ow.totalSupply > 0
    /\ Has(pre.st.balances, last.to)

\* a plain Interact has failed on a sender that holds less than the amount
C11_FailureReached ==
    /\ last.op = "Interact"
    /\ ~HasContractPrefix(last.to)
    /\ ~last.ok
    /\ Has(pre.st.balances, last.from)
    /\ pre.st.balances[last.from] > 0

\* y = v * x for a uint64 v given by its limbs and numbers x, y of the model
\* (of magnitude below Limit <= 2^32: a v of 2^32 or more has v * x in that
\* range only when x = 0)
IsTimesU64(y, v, x) ==
    IF v[1] = 0 /\ v[2] = 0
    THEN y = (v[3] * LimbBase + v[4]) * x
    ELSE x = 0 /\ y = 0

\* C12: for every pre-state and every positive integer multiplier m, after
\* Rebase(m) every stock balance (the custody balance included) equals
\* exactly m times its value before the call, and no wrapper balance, wrapper
\* totalSupply or exchangeRate changes.
C12_SplitExact ==
    (/\ last.op = "RebaseSplit"
     /\ last.u64 # U64(0))
        => /\ last.ok
           /\ DOMAIN st.balances = DOMAIN pre.st.balances
           /\ \A a \in DOMAIN st.balances :
                  IsTimesU64(st.balances[a], last.u64, pre.st.balances[a])
           /\ ow = pre.ow

\* C13: with shareRatio = floor(1,000,000 * cashAmount / sharePrice),
\* Rebase(Dividend) adds exactly floor(balance * shareRatio / 1,000,000) to
\* every existing stock balance, each computed from that account's own
\* pre-dividend balance.
C13_DividendDistribution ==
    (/\ last.op = "RebaseDividend"
     /\ last.ok)
        => /\ DOMAIN st.balances = DOMAIN pre.st.balances
           /\ \A a \in DOMAIN st.balances :
                  st.balances[a] = pre.st.balances[a]
                      + Floor(pre.st.balances[a],
                              Floor(basePrecision, last.div.cashAmount,
                                    last.div.sharePrice),
                              basePrecision)

\* C14: for n >= 1 accounts with non-negative balances, the total of the
\* dividend shares credited by one Rebase(Dividend) is never more than
\* floor(sumOfBalances * shareRatio / 1,000,000) and falls short of it by at
\* most n - 1 raw units.
C14_RoundingLeak ==
    (/\ last.op = "RebaseDividend"
     /\ last.ok
     /\ DOMAIN pre.st.balances # {}
     /\ \A a \in DOMAIN pre.st.balances : pre.st.balances[a] >= 0)
        => LET credited == SumBalances(st.balances)
                               - SumBalances(pre.st.balances)
               whole    == Floor(SumBalances(pre.st.balances),
                                 ShareRatio(last.div), basePrecision)
               n        == Cardinality(DOMAIN pre.st.balances)
           IN  /\ credited <= whole
               /\ whole - credited <= n - 1

\* C14 witness: a dividend over two or more accounts has lost n - 1 raw units
\* to truncation.
C14_Witness ==
    /\ last.op = "RebaseDividend"
    /\ last.ok
    /\ \A a \in DOMAIN pre.st.balances : pre.st.balances[a] >= 0
    /\ Cardinality(DOMAIN pre.st.balances) >= 2
    /\ Floor(SumBalances(pre.st.balances), ShareRatio(last.div), basePrecision)
           - (SumBalances(st.balances) - SumBalances(pre.st.balances))
         = Cardinality(DOMAIN pre.st.balances) - 1

\* C15: Rebase with a Dividend whose sharePrice is not strictly positive
\* (zero or negative) fails and leaves every stock balance unchanged.
C15_NonPositivePriceFails ==
    (/\ last.op = "RebaseDividend"
     /\ last.div.sharePrice <= 0)
        => /\ ~last.ok
           /\ st.balances = pre.st.balances

\* C16: UpdateExchangeRate with a wrapper totalSupply of zero changes nothing;
\* otherwise it sets exchangeRate to exactly
\* floor(custodyStockBalance * 1,000,000 / wrapperTotalSupply) and changes no
\* balance and no supply in either ledger.
C16_UpdateExchangeRate ==
    last.op = "UpdateExchangeRate"
        => /\ last.ok
           /\ st = pre.st
           /\ ow.balances = pre.ow.balances
           /\ ow.totalSupply = pre.ow.totalSupply
           /\ ow.exchangeRate =
                  IF pre.ow.totalSupply = 0 THEN pre.ow.exchangeRate
                  ELSE Floor(Bal(pre.st.balances, owTicker), basePrecision,
                             pre.ow.totalSupply)

\* the round trip of `a` at rate r > 0 has returned u underlying units to a
\* holder other than the custody key: floor(floor(a * 1,000,000 / r) * r /
\* 1,000,000), never more than a and short of a by fewer than
\* max(1, r / 1,000,000) + 1 raw units
RoundTripReturns(op) ==
    (/\ last.op = op
     /\ last.from # owTicker
     /\ pre.ow.exchangeRate > 0
     /\ Has(pre.st.balances, last.from)
     /\ pre.st.balances[last.from] >= last.amount)
        => LET a == last.amount
               r == pre.ow.exchangeRate
               u == Floor(Floor(a, basePrecision, r), r, basePrecision)
           IN  /\ last.ok
               /\ Bal(st.balances, last.from)
                      = Bal(pre.st.balances, last.from) - a + u
               /\ u <= a
               /\ \/ a - u - 1 < 1
                  \/ a - u - 1 <= (r - 1) \div basePrecision

\* C17: for every positive exchangeRate r and every amount a <= balance[from],
\* wrapping a and then immediately unwrapping the wrapped amount received at
\* the same rate returns floor(floor(a * 1,000,000 / r) * r / 1,000,000)
\* underlying units, which is never more than a and is less than a by fewer
\* than max(1, r / 1,000,000) + 1 raw units.
C17_RoundTrip == RoundTripReturns("RoundTrip")

\* C17 with the holder-based Unwrap of src/main.go
C17_RoundTripHolder == RoundTripReturns("RoundTripHolder")

\* a holder-based round trip has lost raw units at a rate other than 1:1
C17_HolderLossReached ==
    /\ last.op = "RoundTripHolder"
    /\ last.ok
    /\ last.from # owTicker
    /\ pre.ow.exchangeRate > 0
    /\ pre.ow.exchangeRate # basePrecision
    /\ Bal(st.balances, last.from) < Bal(pre.st.balances, last.from)

\* the calls of main, with main's own literals
MainCalls ==
    << Call("Mint", "", reece, 0, U64(10), NoDividend),
       Call("Interact", reece, contractAddr, 5000000, U64(0), NoDividend),
       Call("RebaseSplit", "", "", 0, U64(2), NoDividend),
       Call("UpdateExchangeRate", "", "", 0, U64(0), NoDividend),
       Call("RebaseDividend", "", "", 0, U64(0),
            [cashAmount |-> 150, sharePrice |-> 5000]),
       Call("UpdateExchangeRate", "", "", 0, U64(0), NoDividend),
       Call("Claim", contractAddr, reece, 1000000, U64(0), NoDividend) >>

\* C18: main's scenario.  Mint(A, 10); Interact(A -> 0xCONTRACT, 5,000,000)
\* leaves A with stock 5,000,000, custody with stock 5,000,000 and 0xCONTRACT
\* with wrapped 5,000,000 at rate 1,000,000; Rebase(2) then UpdateExchangeRate
\* gives A 10,000,000, custody 10,000,000, rate 2,000,000;
\* Rebase(Dividend{150 cents, price 5000 cents}) then UpdateExchangeRate gives
\* A 10,300,000, custody 10,300,000, rate 2,060,000;
\* Claim(0xCONTRACT -> A, 1,000,000) ends with A 12,360,000, custody
\* 8,240,000, contract wrapped balance 4,000,000 and wrapper totalSupply
\* 4,000,000.
C18_MainScenario ==
    /\ calls = SubSeq(MainCalls, 1, 2) =>
           /\ last.ok
           /\ Bal(st.balances, reece) = 5000000
           /\ Bal(st.balances, owTicker) = 5000000
           /\ Bal(ow.balances, contractAddr) = 5000000
           /\ ow.exchangeRate = 1000000
    /\ calls = SubSeq(MainCalls, 1, 4) =>
           /\ last.ok
           /\ Bal(st.balances, reece) = 10000000
           /\ Bal(st.balances, owTicker) = 10000000
           /\ ow.exchangeRate = 2000000
    /\ calls = SubSeq(MainCalls, 1, 6) =>
           /\ last.ok
           /\ Bal(st.balances, reece) = 10300000
           /\ Bal(st.balances, owTicker) = 10300000
           /\ ow.exchangeRate = 2060000
    /\ calls = MainCalls =>
           /\ last.ok
           /\ Bal(st.balances, reece) = 12360000
           /\ Bal(st.balances, owTicker) = 8240000
           /\ Bal(ow.balances, contractAddr) = 4000000
           /\ ow.totalSupply = 4000000

\* C18 witness: main has made all its calls, with its own literals, and the
\* last one has returned.
C18_Witness ==
    /\ calls = MainCalls
    /\ last.ok

\* C19: the exchange rate is changed only by UpdateExchangeRate: Mint, Rebase
\* (split or dividend), Wrap, Transfer, Interact, Unwrap and Claim all leave
\* exchangeRate unchanged, so after a Rebase the rate keeps its pre-rebase
\* value until UpdateExchangeRate is called.
C19_RateChangedOnlyByUpdate ==
    last.op # "UpdateExchangeRate" => ow.exchangeRate = pre.ow.exchangeRate

\* C19 witness: a split has changed the custody balance under outstanding
\* wrapped tokens, and the rate is the stale one.
C19_Witness ==
    /\ last.op = "RebaseSplit"
    /\ last.ok
    /\ ow.totalSupply > 0
    /\ Bal(st.balances, owTicker) # Bal(pre.st.balances, owTicker)
    /\ ow.exchangeRate = pre.ow.exchangeRate
    /\ ow.exchangeRate
           # Floor(Bal(st.balances, owTicker), basePrecision, ow.totalSupply)

\* C20: Mint never decreases a balance or totalSupply: for every share count
\* representable as an unsigned 64-bit integer, counts of 2^63 and above
\* included, the amount credited is the non-negative value
\* shares * 1,000,000.
C20_MintNoSignWrap ==
    last.op = "Mint"
        => LET toBalance == Bal(st.balances, last.to)
                                - Bal(pre.st.balances, last.to)
               toSupply  == st.totalSupply - pre.st.totalSupply
           IN  /\ last.ok
               /\ toBalance >= 0
               /\ toSupply >= 0
               /\ IsTimesU64(toBalance, last.u64, basePrecision)
               /\ IsTimesU64(toSupply, last.u64, basePrecision)

\* C21: the wrapper totalSupply equals the sum of all wrapper balances in
\* every state reachable by any sequence of Wrap, Transfer, Interact, Unwrap,
\* Claim, UpdateExchangeRate, Mint and Rebase calls, the states left by failed
\* calls included.
C21_WrapperSupplyIsSum ==
    ow.totalSupply = SumBalances(ow.balances)

\* C21 witness: wrapped tokens minted at a rate other than 1:1 are spread
\* over two holders, and a wrapped transfer from an address to itself has
\* returned.
C21_Witness ==
    /\ last.op = "Transfer"
    /\ last.ok
    /\ last.from = last.to
    /\ last.amount > 0
    /\ ow.exchangeRate # basePrecision
    /\ \E a, b \in DOMAIN ow.balances :
           a # b /\ ow.balances[a] > 0 /\ ow.balances[b] > 0

\* a call has failed and left wrapped tokens outstanding
C21_FailureReached ==
    /\ ~last.ok
    /\ ow.totalSupply > 0
    /\ Cardinality(DOMAIN ow.balances) >= 2

\* C22: the sum of all stock balances (the custody balance included) is
\* preserved by every Wrap, Interact, wrapper Transfer, Unwrap, Claim and
\* UpdateExchangeRate that returns; it changes only on Mint and Rebase, and
\* the stock totalSupply changes only on Mint.  Hence in any run without a
\* Rebase the stock totalSupply equals the sum of the stock balances.
C22_StockSumPreserved ==
    /\ (/\ last.ok
        /\ last.op \in {"Wrap", "Interact", "Transfer", "Unwrap", "Claim",
                        "UpdateExchangeRate"})
           => SumBalances(st.balances) = SumBalances(pre.st.balances)
    /\ SumBalances(st.balances) # SumBalances(pre.st.balances)
           => last.op \in {"Mint", "RebaseSplit", "RebaseDividend"}
    /\ st.totalSupply # pre.st.totalSupply => last.op = "Mint"
    /\ ~seen.rebase => st.totalSupply = SumBalances(st.balances)

\* C22 witness: in a run without a Rebase, a Claim has moved stock out of the
\* custody balance to an address other than the custody key, at a rate other
\* than 1:1.
C22_Witness ==
    /\ ~seen.rebase
    /\ last.op = "Claim"
    /\ last.ok
    /\ last.to # owTicker
    /\ pre.ow.exchangeRate # basePrecision
    /\ Bal(st.balances, owTicker) # Bal(pre.st.balances, owTicker)
    /\ st.totalSupply = SumBalances(st.balances)

\* a Rebase has taken the sum of the stock balances away from totalSupply
C22_RebaseReached ==
    /\ seen.rebase
    /\ last.ok
    /\ st.totalSupply # SumBalances(st.balances)

\* the underlying the whole wrapper supply redeems for at the current rate
RedeemAll == Floor(ow.totalSupply, ow.exchangeRate, basePrecision)

\* C23: once an UpdateExchangeRate call has found a wrapper totalSupply > 0,
\* redeeming the whole wrapper supply does not overdraw custody:
\* floor(wrapperTotalSupply * exchangeRate / 1,000,000) <= custody stock
\* balance, in the state after that call and after any further Wrap,
\* auto-wrapping Interact, wrapper Transfer, Claim, Mint to non-custody
\* addresses and Rebase, with or without a following UpdateExchangeRate, as
\* long as no stock is transferred out of or wrapped from the custody address.
C23_Solvency ==
    seen.update => RedeemAll <= Bal(st.balances, owTicker)

\* a split or a dividend has grown the custody balance under a rate that has
\* not been updated since, and the wrapper supply still redeems within it
C23_StaleRateReached ==
    /\ seen.update
    /\ last.op \in {"RebaseSplit", "RebaseDividend"}
    /\ last.ok
    /\ ow.totalSupply > 0
    /\ 0 < RedeemAll
    /\ RedeemAll < Bal(st.balances, owTicker)

\* every account of the map has been written once
VisitedOnce(r) == \A address \in DOMAIN r.visits : r.visits[address] = 1

\* C24: the state after Rebase (split or dividend) does not depend on the
\* order in which the balance map is iterated: for the same pre-state and
\* action, every visiting order of the accounts produces the same post-state,
\* and each account is updated exactly once.
C24_RebaseOrderIndependent ==
    /\ last.op = "RebaseSplit" =>
           \A order \in Orders(DOMAIN pre.st.balances) :
               /\ RebaseSplitOrdered(pre, last.u64, order) = Ok(W)
               /\ VisitedOnce(SplitLoop(LoopStart(pre.st.balances),
                                        Int64Of(last.u64), order))
    /\ (last.op = "RebaseDividend" /\ last.ok) =>
           \A order \in Orders(DOMAIN pre.st.balances) :
               /\ RebaseDividendOrdered(pre, last.div, order) = Ok(W)
               /\ VisitedOnce(DividendLoop(LoopStart(pre.st.balances),
                                           ShareRatio(last.div), order))

\* C24 witness: a dividend has been paid over three accounts with balances
\* that all differ, at least one of them losing a fraction to truncation.
C24_Witness ==
    /\ last.op = "RebaseDividend"
    /\ last.ok
    /\ Cardinality(DOMAIN pre.st.balances) = 3
    /\ \A a, b \in DOMAIN pre.st.balances :
           a # b => pre.st.balances[a] # pre.st.balances[b]
    /\ \E a \in DOMAIN pre.st.balances :
           /\ st.balances[a] # pre.st.balances[a]
           /\ MulDivMod(Abs(pre.st.balances[a]), Abs(ShareRatio(last.div)),
                        basePrecision)[2] # 0

\* a split has multiplied three accounts with balances that all differ
C24_SplitReached ==
    /\ last.op = "RebaseSplit"
    /\ last.u64 # U64(1)
    /\ Cardinality(DOMAIN pre.st.balances) = 3
    /\ \A a, b \in DOMAIN pre.st.balances :
           a # b => pre.st.balances[a] # pre.st.balances[b]
    /\ \A a \in DOMAIN pre.st.balances : st.balances[a] # pre.st.balances[a]

\* the loops of Rebase leave what RebaseSplit and RebaseDividend describe
C24_LoopIsMap ==
    /\ last.op = "RebaseSplit" => RebaseSplit(pre, last.u64) = Ok(W)
    /\ (last.op = "RebaseDividend" /\ last.ok) =>
           RebaseDividend(pre, last.div) = Ok(W)

====
